---- MODULE Spec2Model ----
(***************************************************************************)
(* LiteLLMAgent (src/agent.py): the tool-calling loop of process_request,  *)
(* with the helpers it calls.  A run suspends at three awaits (tool        *)
(* discovery, model backend call, tool invocation); the code between two   *)
(* awaits is one atomic step of the event loop and is one action here.     *)
(*                                                                         *)
(* Python values are represented as follows.                               *)
(*   - an optional value (a dict key that may be missing, a local that may *)
(*     be unassigned) is a set: {} when missing, {v} when present;         *)
(*   - a dict with string values is a set of <<key, value>> pairs;         *)
(*   - a list is a sequence; a str is a TLA+ string.                       *)
(***************************************************************************)
EXTENDS Integers, Sequences, FiniteSets, TLC

VARIABLES
    mcp_tools,          \* self.mcp_tools, the one attribute every run writes
    pc,                 \* per run: where process_request is suspended
    request,            \* per run: the request argument
    max_tool_calls,     \* per run: the max_tool_calls argument
    litellm_functions,  \* per run: local litellm_functions
    messages,           \* per run: local messages
    tool_call_count,    \* per run: local tool_call_count ({} while unassigned)
    function_name,      \* per run: local function_name ({} while unassigned/None)
    function_args,      \* per run: local function_args ({} while unassigned)
    outcome,            \* per run: the dict returned ({} until the return)
    escaped,            \* per run: the exception that left process_request
    model_calls,        \* per run: number of _call_litellm calls issued
    tool_invocations,   \* per run: number of _execute_mcp_tool calls issued
    last_turn,          \* per run: "none", "final" or "call", the latest model turn
    fetches,            \* per run: number of _fetch_mcp_tools calls issued
    discovered,         \* per run: the list_tools reply its discovery got ({} if none)
    sent,               \* per run: the request bodies posted to the backend, in order
    mcp_tools_writer,   \* the run that assigned self.mcp_tools last (0: __init__)
    mcp_tools_reader    \* per run: the writers of the self.mcp_tools values it read

vars == <<mcp_tools, pc, request, max_tool_calls, litellm_functions, messages,
          tool_call_count, function_name, function_args, outcome, escaped,
          model_calls, tool_invocations, last_turn, fetches, discovered, sent,
          mcp_tools_writer, mcp_tools_reader>>

(***************************************************************************)
(* Bounds of the model.                                                    *)
(***************************************************************************)
MaxBudget == 2      \* largest max_tool_calls a run is started with
MaxTools == 2       \* most tools in a list handed to the converter
MaxContent == 2     \* most content items in one call_tool reply

Runs == {1, 2}

(***************************************************************************)
(* Optional values and dict.get.                                           *)
(***************************************************************************)
get(d, default) == IF d = {} THEN default ELSE CHOOSE v \in d : TRUE

Digits == <<"0", "1", "2", "3", "4", "5", "6", "7", "8", "9">>

RECURSIVE str_int(_)
str_int(n) ==
    IF n < 10 THEN Digits[n + 1]
    ELSE str_int(n \div 10) \o Digits[(n % 10) + 1]

(***************************************************************************)
(* json.loads and json.dumps, on the values the loop gives them.           *)
(*   A payload is the JSON value found under "arguments": a JSON string    *)
(*   (json_type "string", with its text) or another JSON value.            *)
(*   json.loads raises TypeError on anything that is not text, raises      *)
(*   JSONDecodeError on text that is not JSON, and otherwise returns the   *)
(*   decoded value, which is a dict only if the text is a JSON object.     *)
(***************************************************************************)
StrPayload(text) == [json_type |-> "string", text |-> text]
NullPayload == [json_type |-> "null", text |-> "null"]

EmptyDict == [pytype |-> "dict", items |-> {}]

json_loads(payload) ==
    IF payload.json_type # "string"
    THEN [raised |-> {[type |-> "TypeError",
                       text |-> "the JSON object must be str, bytes or bytearray, not NoneType"]},
          value |-> EmptyDict]
    ELSE CASE payload.text = "{}" ->
                [raised |-> {}, value |-> EmptyDict]
           [] payload.text = "{\"location\": \"SF\"}" ->
                [raised |-> {},
                 value |-> [pytype |-> "dict", items |-> {<<"location", "SF">>}]]
           [] payload.text = "[1, 2]" ->
                [raised |-> {},
                 value |-> [pytype |-> "list", items |-> {<<"0", "1">>, <<"1", "2">>}]]
           [] OTHER ->
                [raised |-> {[type |-> "JSONDecodeError",
                              text |-> "Expecting value: line 1 column 1 (char 0)"]},
                 value |-> EmptyDict]

\* the JSON string literal of a text, without its quotes: json.dumps puts a
\* backslash before each double quote and each backslash
Char(text, i) == SubSeq(text, i, i)

\* the texts pieces[lo], ..., pieces[hi] joined in order
RECURSIVE join(_, _, _)
join(pieces, lo, hi) ==
    IF lo > hi THEN ""
    ELSE IF lo = hi THEN pieces[lo]
    ELSE LET mid == (lo + hi) \div 2
         IN join(pieces, lo, mid) \o join(pieces, mid + 1, hi)

py_encode_basestring(text) ==
    join([i \in 1..Len(text) |->
            IF Char(text, i) \in {"\"", "\\"} THEN "\\" \o Char(text, i)
            ELSE Char(text, i)],
         1, Len(text))

\* json.dumps of a tool result: a dict with exactly one string-valued key.
json_dumps(d) ==
    IF d = {} THEN "{}"
    ELSE LET kv == CHOOSE p \in d : TRUE
         IN "{\"" \o py_encode_basestring(kv[1]) \o "\": \""
                  \o py_encode_basestring(kv[2]) \o "\"}"

py_escape(text) ==
    join([i \in 1..Len(text) |->
            IF Char(text, i) \in {"'", "\\"} THEN "\\" \o Char(text, i)
            ELSE Char(text, i)],
         1, Len(text))

has(text, c) == \E i \in 1..Len(text) : Char(text, i) = c

\* repr() of a str: in double quotes if it holds a single quote and no double
\* quote, else in single quotes with single quotes and backslashes escaped
py_repr(text) ==
    IF has(text, "'") /\ ~has(text, "\"")
    THEN "\"" \o text \o "\""
    ELSE "'" \o py_escape(text) \o "'"

\* str() of the same dict, which is Python's notation and not JSON
py_str(d) ==
    IF d = {} THEN "{}"
    ELSE LET kv == CHOOSE p \in d : TRUE
         IN "{" \o py_repr(kv[1]) \o ": " \o py_repr(kv[2]) \o "}"

(***************************************************************************)
(* Exceptions.  str(e) is the text; the handler of process_request is      *)
(* `except Exception`, which catches every class below.                    *)
(***************************************************************************)
Exc(type, text) == [type |-> type, text |-> text]

ExceptionClasses ==
    {"Exception", "ConnectError", "TimeoutException", "McpError",
     "TypeError", "AttributeError", "JSONDecodeError", "IndexError", "KeyError"}

\* a handler written for one class only: `except httpx.ConnectError`
IsException_OneClass(e) == e.type = "ConnectError"

IsException(e) == e.type \in ExceptionClasses

(***************************************************************************)
(* Tool discovery: _fetch_mcp_tools and _convert_mcp_tools_to_litellm.     *)
(*   A provider tool has name, description and an optional inputSchema     *)
(*   (missing, or present and possibly empty).                             *)
(***************************************************************************)
WeatherSchema ==
    {<<"type", "object">>, <<"properties", "location">>, <<"required", "location">>}

DefaultSchema ==
    {<<"type", "object">>, <<"properties", "{}">>, <<"required", "[]">>}

MCPTool(tool) ==
    [name |-> tool.name,
     description |-> tool.description,
     input_schema |->
        IF tool.inputSchema # {} /\ get(tool.inputSchema, {}) # {}
        THEN get(tool.inputSchema, {})
        ELSE {}]

fetch_mcp_tools(tools_response) ==
    [i \in 1..Len(tools_response) |-> MCPTool(tools_response[i])]

\* the function spec without the substitution of line 136
function_def_NoDefault(tool) ==
    [name |-> tool.name,
     description |-> tool.description,
     parameters |-> tool.input_schema]

function_def(tool) ==
    [name |-> tool.name,
     description |-> tool.description,
     parameters |-> IF tool.input_schema # {} THEN tool.input_schema
                    ELSE DefaultSchema]

convert_mcp_tools_to_litellm(tools) ==
    [i \in 1..Len(tools) |-> function_def(tools[i])]

(***************************************************************************)
(* _execute_mcp_tool.  A call_tool reply is an optional exception and a    *)
(* list of content items; an item has an optional text attribute and a     *)
(* string representation.                                                  *)
(***************************************************************************)
\* lines 107-121, the body of the try: what call_tool and the extraction of
\* the first content item produce, an exception or a one-key dict
call_tool_body(reply) ==
    IF reply.error # {}
    THEN [raised |-> reply.error, value |-> {}]
    ELSE IF reply.content # <<>>
    THEN LET first == reply.content[1]
         IN IF first.text = {}
            THEN [raised |-> {Exc("AttributeError", "object has no attribute 'text'")},
                  value |-> {}]
            ELSE IF get(first.text, "") # ""
            THEN [raised |-> {}, value |-> {<<"result", get(first.text, "")>>}]
            ELSE [raised |-> {}, value |-> {<<"result", first.repr>>}]
    ELSE [raised |-> {},
          value |-> {<<"result", "Tool executed successfully but returned no content">>}]

\* the function without its try/except: what call_tool raises is propagated
execute_mcp_tool_NoExcept(reply) == call_tool_body(reply)

\* lines 104-125: the try body under `except Exception`
execute_mcp_tool(reply) ==
    LET body == call_tool_body(reply)
        e == get(body.raised, Exc("", ""))
    IN IF body.raised # {} /\ IsException(e)
       THEN [raised |-> {},
             value |-> {<<"error", "Tool execution failed: " \o e.text>>}]
       ELSE body

(***************************************************************************)
(* _call_litellm: what the await at line 224 produces from the backend's   *)
(* HTTP reply: the decoded body on status 200, an exception otherwise.     *)
(***************************************************************************)
\* the function without the status test of lines 176-178
call_litellm_IgnoresStatus(http) ==
    IF http.error # {}
    THEN [raised |-> http.error, result |-> http.json]
    ELSE [raised |-> {}, result |-> http.json]

call_litellm(http) ==
    IF http.error # {}
    THEN [raised |-> http.error, result |-> http.json]
    ELSE IF http.status_code # 200
    THEN [raised |-> {Exc("Exception",
                          "LiteLLM request failed: " \o str_int(http.status_code))},
          result |-> http.json]
    ELSE [raised |-> {}, result |-> http.json]

\* the body with function_call set whether or not functions are offered
call_litellm_request_AlwaysAuto(msgs, model, functions) ==
    LET offered == functions # {} /\ get(functions, <<>>) # <<>>
    IN [model |-> model,
        messages |-> msgs,
        functions |-> IF offered THEN functions ELSE {},
        function_call |-> {"auto"}]

\* lines 161-168: the body posted to /v1/chat/completions; `functions` is
\* None ({}) or a list, and `if functions` is false for None and for []
call_litellm_request(msgs, model, functions) ==
    LET offered == functions # {} /\ get(functions, <<>>) # <<>>
    IN [model |-> model,
        messages |-> msgs,
        functions |-> IF offered THEN functions ELSE {},
        function_call |-> IF offered THEN {"auto"} ELSE {}]

\* line 227: `litellm_functions if litellm_functions else None`
functions_argument(fns) == IF fns # <<>> THEN {fns} ELSE {}

\* line 191: the default of the model parameter
DefaultModel == "gpt-3.5-turbo"

\* list.insert(0, item) in the place of list.append
append_Prepends(list, item) == <<item>> \o list

\* list.append of lines 234 and 272
append(list, item) == Append(list, item)

(***************************************************************************)
(* The dicts process_request returns, and conversation messages.           *)
(***************************************************************************)
Message(role, name, content, function_call) ==
    [role |-> role, name |-> name, content |-> content,
     function_call |-> function_call]

EmptyMessage == Message({}, {}, {}, {})

\* lines 267-271 with str(tool_result) in the place of json.dumps
function_message_Str(name, tool_result) ==
    Message({"function"}, name, {py_str(tool_result)}, {})

\* lines 267-271: the function-result message of a tool invocation
function_message(name, tool_result) ==
    Message({"function"}, name, {json_dumps(tool_result)}, {})

\* the count incremented before the test of line 239: the final turn is counted
SuccessOutcome_CountsTurn(message, llm_response, count) ==
    [success |-> TRUE,
     response |-> {get(message.content, "")},
     error |-> {},
     tool_calls_made |-> count + 1,
     total_tokens |-> {get(get(llm_response.usage, [total_tokens |-> {}]).total_tokens, 0)},
     partial_response |-> {}]

\* lines 242-247
SuccessOutcome(message, llm_response, count) ==
    [success |-> TRUE,
     response |-> {get(message.content, "")},
     error |-> {},
     tool_calls_made |-> count,
     total_tokens |-> {get(get(llm_response.usage, [total_tokens |-> {}]).total_tokens, 0)},
     partial_response |-> {}]

\* lines 277-282
ExhaustedOutcome(limit, count, msgs) ==
    [success |-> FALSE,
     response |-> {},
     error |-> {"Maximum tool calls (" \o str_int(limit) \o ") reached"},
     tool_calls_made |-> count,
     total_tokens |-> {},
     partial_response |-> {IF msgs # <<>> THEN get(msgs[Len(msgs)].content, "") ELSE ""}]

\* the handler reporting a fixed text instead of str(e)
FailedOutcome_FixedText(e, count) ==
    [success |-> FALSE,
     response |-> {},
     error |-> {"Failed to process request"},
     tool_calls_made |-> get(count, 0),
     total_tokens |-> {},
     partial_response |-> {}]

\* lines 286-290; count is {} while tool_call_count is not in locals()
FailedOutcome(e, count) ==
    [success |-> FALSE,
     response |-> {},
     error |-> {e.text},
     tool_calls_made |-> get(count, 0),
     total_tokens |-> {},
     partial_response |-> {}]

\* `if not function_call`: a missing key and an empty dict are both falsy
Falsy(function_call) ==
    \/ function_call = {}
    \/ LET fc == get(function_call, [name |-> {}, arguments |-> {}])
       IN fc.name = {} /\ fc.arguments = {}


(***************************************************************************)
(* Inputs: what the caller, the tool provider and the model backend give.  *)
(***************************************************************************)
Requests == {"What's the weather like in San Francisco?"}

Budgets == 0..MaxBudget

ProviderTool(name, description, inputSchema) ==
    [name |-> name, description |-> description, inputSchema |-> inputSchema]

ToolsResponses ==
    { <<>>,
      <<ProviderTool("weather", "Get the weather", {WeatherSchema})>>,
      <<ProviderTool("time", "Get the time", {}),
        ProviderTool("echo", "Echo", {{}})>> }

DiscoveryErrors == {Exc("ConnectError", "All connection attempts failed")}

\* bodies of a 200 reply: {choices?: [{message?: {...}}], usage?: {total_tokens?}}
LLMResponse(choices, usage) == [choices |-> choices, usage |-> usage]

Usage(n) == {[total_tokens |-> {n}]}

FunctionCall(name, arguments) == [name |-> name, arguments |-> arguments]

ArgumentPayloads ==
    { {},                                       \* no "arguments" key
      {StrPayload("{\"location\": \"SF\"}")},   \* a JSON object
      {StrPayload("[1, 2]")},                   \* JSON, but not an object
      {StrPayload("not-json")},                 \* not JSON
      {NullPayload} }                           \* not a string at all

FinalMessages ==
    { Message({"assistant"}, {}, {"Hello"}, {}),
      Message({"assistant"}, {}, {}, {}),
      Message({"assistant"}, {}, {"Hello"}, {FunctionCall({}, {})}) }

CallMessages ==
    { Message({"assistant"}, {}, {}, {FunctionCall({"weather"}, a)}) :
        a \in ArgumentPayloads }

LLMResponses ==
    { LLMResponse({<<[message |-> {m}]>>}, u) :
        m \in FinalMessages \cup CallMessages, u \in {Usage(42)} }
    \cup { LLMResponse({<<[message |-> {}]>>}, {[total_tokens |-> {}]}),
           LLMResponse({<<>>}, Usage(42)),
           LLMResponse({}, Usage(42)),
           LLMResponse({}, {}) }

HttpReply(error, status_code, json) ==
    [error |-> error, status_code |-> status_code, json |-> json]

HttpReplies ==
    { HttpReply({}, 200, j) : j \in LLMResponses }
    \cup { HttpReply({}, 500, LLMResponse({}, {})),
           HttpReply({Exc("TimeoutException", "timed out")}, 0, LLMResponse({}, {})) }

ContentItem(text, repr) == [text |-> text, repr |-> repr]

ContentItems ==
    { ContentItem({"Sunny, 65F"}, "type='text' text='Sunny, 65F'"),
      ContentItem({"{\"temp\": 65}"}, "type='text' text='{\"temp\": 65}'"),
      ContentItem({""}, "type='text' text=''"),
      ContentItem({}, "type='image'") }

\* an item that comes after the first one of a reply
LaterItems == { ContentItem({"Cloudy, 50F"}, "type='text' text='Cloudy, 50F'") }

LaterLists == UNION { [1..n -> LaterItems] : n \in 0..(MaxContent - 1) }

\* the content of a reply: no item, or any first item and then later items
ContentLists ==
    {<<>>} \cup { <<first>> \o later : first \in ContentItems, later \in LaterLists }

ToolReply(error, content) == [error |-> error, content |-> content]

ToolReplies ==
    { ToolReply({}, c) : c \in ContentLists }
    \cup { ToolReply({Exc("McpError", "Unknown tool")}, <<>>) }

(***************************************************************************)
(* process_request, one action per stretch of code between two awaits.     *)
(***************************************************************************)
Init ==
    /\ mcp_tools = <<>>
    /\ pc = [r \in Runs |-> "idle"]
    /\ request = [r \in Runs |-> ""]
    /\ max_tool_calls = [r \in Runs |-> 0]
    /\ litellm_functions = [r \in Runs |-> <<>>]
    /\ messages = [r \in Runs |-> <<>>]
    /\ tool_call_count = [r \in Runs |-> {}]
    /\ function_name = [r \in Runs |-> {}]
    /\ function_args = [r \in Runs |-> {}]
    /\ outcome = [r \in Runs |-> {}]
    /\ escaped = [r \in Runs |-> {}]
    /\ model_calls = [r \in Runs |-> 0]
    /\ tool_invocations = [r \in Runs |-> 0]
    /\ last_turn = [r \in Runs |-> "none"]
    /\ fetches = [r \in Runs |-> 0]
    /\ discovered = [r \in Runs |-> {}]
    /\ sent = [r \in Runs |-> <<>>]
    /\ mcp_tools_writer = 0
    /\ mcp_tools_reader = [r \in Runs |-> {}]

\* return statements: the run ends with a dict
Return(r, result) ==
    /\ pc' = [pc EXCEPT ![r] = "returned"]
    /\ outcome' = [outcome EXCEPT ![r] = {result}]
    /\ UNCHANGED escaped

\* an exception raised inside the try of process_request, with the value
\* tool_call_count has at that point: lines 284-290
Raise(r, e, count) ==
    IF IsException(e)
    THEN Return(r, FailedOutcome(e, count))
    ELSE /\ pc' = [pc EXCEPT ![r] = "raised"]
         /\ escaped' = [escaped EXCEPT ![r] = {e}]
         /\ UNCHANGED outcome

\* the loop test written `<=`: one iteration too many
LoopHead_OffByOne(r, count, msgs) ==
    IF count <= max_tool_calls[r]
    THEN /\ pc' = [pc EXCEPT ![r] = "litellm"]
         /\ model_calls' = [model_calls EXCEPT ![r] = @ + 1]
         /\ sent' = [sent EXCEPT ![r] =
                        Append(@, call_litellm_request(msgs, DefaultModel,
                                      functions_argument(litellm_functions'[r])))]
         /\ UNCHANGED <<outcome, escaped>>
    ELSE /\ Return(r, ExhaustedOutcome(max_tool_calls[r], count, msgs))
         /\ UNCHANGED <<model_calls, sent>>

\* the loop test written `< max_tool_calls - 1`: the loop gives up one call early
LoopHead_StopsEarly(r, count, msgs) ==
    IF count < max_tool_calls[r] - 1
    THEN /\ pc' = [pc EXCEPT ![r] = "litellm"]
         /\ model_calls' = [model_calls EXCEPT ![r] = @ + 1]
         /\ sent' = [sent EXCEPT ![r] =
                        Append(@, call_litellm_request(msgs, DefaultModel,
                                      functions_argument(litellm_functions'[r])))]
         /\ UNCHANGED <<outcome, escaped>>
    ELSE /\ Return(r, ExhaustedOutcome(max_tool_calls[r], count, msgs))
         /\ UNCHANGED <<model_calls, sent>>

\* the loop test of line 221 and what follows it up to the next await:
\* the call of _call_litellm (224) or the return of lines 276-282
LoopHead_FunctionsOnce(r, count, msgs) ==
    IF count < max_tool_calls[r]
    THEN /\ pc' = [pc EXCEPT ![r] = "litellm"]
         /\ model_calls' = [model_calls EXCEPT ![r] = @ + 1]
         /\ sent' = [sent EXCEPT ![r] =
                        Append(@, call_litellm_request(msgs, DefaultModel,
                                      IF count = 0
                                      THEN functions_argument(litellm_functions'[r])
                                      ELSE {}))]
         /\ UNCHANGED <<outcome, escaped>>
    ELSE /\ Return(r, ExhaustedOutcome(max_tool_calls[r], count, msgs))
         /\ UNCHANGED <<model_calls, sent>>

\* the loop converting self.mcp_tools anew at each pass, not the local of 211
LoopHead_ReadsAttribute(r, count, msgs) ==
    IF count < max_tool_calls[r]
    THEN /\ pc' = [pc EXCEPT ![r] = "litellm"]
         /\ model_calls' = [model_calls EXCEPT ![r] = @ + 1]
         /\ sent' = [sent EXCEPT ![r] =
                        Append(@, call_litellm_request(msgs, DefaultModel,
                                      functions_argument(
                                         convert_mcp_tools_to_litellm(mcp_tools'))))]
         /\ UNCHANGED <<outcome, escaped>>
    ELSE /\ Return(r, ExhaustedOutcome(max_tool_calls[r], count, msgs))
         /\ UNCHANGED <<model_calls, sent>>

LoopHead_NoBudget(r, count, msgs) ==
    /\ pc' = [pc EXCEPT ![r] = "litellm"]
    /\ model_calls' = [model_calls EXCEPT ![r] = @ + 1]
    /\ sent' = [sent EXCEPT ![r] =
                   Append(@, call_litellm_request(msgs, DefaultModel,
                                 functions_argument(litellm_functions'[r])))]
    /\ UNCHANGED <<outcome, escaped>>

LoopHead(r, count, msgs) ==
    IF count < max_tool_calls[r]
    THEN /\ pc' = [pc EXCEPT ![r] = "litellm"]
         /\ model_calls' = [model_calls EXCEPT ![r] = @ + 1]
         /\ sent' = [sent EXCEPT ![r] =
                        Append(@, call_litellm_request(msgs, DefaultModel,
                                      functions_argument(litellm_functions'[r])))]
         /\ UNCHANGED <<outcome, escaped>>
    ELSE /\ Return(r, ExhaustedOutcome(max_tool_calls[r], count, msgs))
         /\ UNCHANGED <<model_calls, sent>>

\* the call: runs up to the await of _fetch_mcp_tools (line 208)
process_request(r, req, limit) ==
    /\ pc[r] = "idle"
    /\ pc' = [pc EXCEPT ![r] = "fetch"]
    /\ request' = [request EXCEPT ![r] = req]
    /\ max_tool_calls' = [max_tool_calls EXCEPT ![r] = limit]
    /\ fetches' = [fetches EXCEPT ![r] = @ + 1]
    /\ UNCHANGED <<mcp_tools, litellm_functions, messages, tool_call_count,
                   function_name, function_args, outcome, escaped, model_calls,
                   tool_invocations, last_turn, discovered, sent,
                   mcp_tools_writer, mcp_tools_reader>>

\* _fetch_mcp_tools returns: lines 208-221, then 224 or 276-282
fetch_returns(r, tools_response) ==
    /\ pc[r] = "fetch"
    /\ discovered' = [discovered EXCEPT ![r] = {tools_response}]
    /\ mcp_tools' = fetch_mcp_tools(tools_response)
    /\ mcp_tools_writer' = r
    /\ litellm_functions' =
          [litellm_functions EXCEPT ![r] = convert_mcp_tools_to_litellm(mcp_tools')]
    /\ mcp_tools_reader' = [mcp_tools_reader EXCEPT ![r] = @ \cup {mcp_tools_writer'}]
    /\ messages' = [messages EXCEPT ![r] = <<Message({"user"}, {}, {request[r]}, {})>>]
    /\ tool_call_count' = [tool_call_count EXCEPT ![r] = {0}]
    /\ LoopHead(r, 0, messages'[r])
    /\ UNCHANGED <<request, max_tool_calls, function_name, function_args,
                   tool_invocations, last_turn, fetches>>

\* _fetch_mcp_tools raises (line 102): handler of lines 284-290
fetch_raises(r, e) ==
    /\ pc[r] = "fetch"
    /\ Raise(r, e, tool_call_count[r])
    /\ UNCHANGED <<mcp_tools, request, max_tool_calls, litellm_functions, messages,
                   tool_call_count, function_name, function_args, model_calls,
                   tool_invocations, last_turn, fetches, discovered, sent,
                   mcp_tools_writer, mcp_tools_reader>>

\* _call_litellm raises (lines 178, 186): handler of lines 284-290
litellm_raises(r, http) ==
    /\ pc[r] = "litellm"
    /\ call_litellm(http).raised # {}
    /\ Raise(r, get(call_litellm(http).raised, Exc("", "")), tool_call_count[r])
    /\ UNCHANGED <<mcp_tools, request, max_tool_calls, litellm_functions, messages,
                   tool_call_count, function_name, function_args, model_calls,
                   tool_invocations, last_turn, fetches, discovered, sent,
                   mcp_tools_writer, mcp_tools_reader>>

\* lines 231-232: the message of the first choice, {} for a missing key
\* llm_response["choices"][0], without the default of .get
first_choice_NoDefault(llm_response) ==
    IF llm_response.choices = {}
    THEN [raised |-> {Exc("KeyError", "'choices'")}, value |-> [message |-> {}]]
    ELSE LET choices == get(llm_response.choices, <<>>)
         IN IF choices = <<>>
            THEN [raised |-> {Exc("IndexError", "list index out of range")},
                  value |-> [message |-> {}]]
            ELSE [raised |-> {}, value |-> choices[1]]

\* line 231: llm_response.get("choices", [{}])[0]; indexing an empty list
\* raises IndexError
first_choice(llm_response) ==
    LET choices == get(llm_response.choices, <<[message |-> {}]>>)
    IN IF choices = <<>>
       THEN [raised |-> {Exc("IndexError", "list index out of range")},
             value |-> [message |-> {}]]
       ELSE [raised |-> {}, value |-> choices[1]]

\* line 232: choice.get("message", {})
first_message(llm_response) ==
    get(first_choice(llm_response).value.message, EmptyMessage)

\* `except json.JSONDecodeError` of line 256: the one class it catches
Caught(decoded) ==
    \E e \in decoded.raised : e.type = "JSONDecodeError"

\* _call_litellm returns: lines 231-262, up to the return of 242 or the
\* await of _execute_mcp_tool
litellm_returns(r, http) ==
    /\ pc[r] = "litellm"
    /\ call_litellm(http).raised = {}
    /\ LET llm_response == call_litellm(http).result
           message == first_message(llm_response)
           function_call == message.function_call
           count == get(tool_call_count[r], 0)
           choice == first_choice(llm_response)
       IN IF choice.raised # {}
          THEN /\ Raise(r, get(choice.raised, Exc("", "")), tool_call_count[r])
               /\ UNCHANGED <<messages, last_turn, tool_call_count, function_name,
                              function_args, tool_invocations>>
          ELSE /\ messages' = [messages EXCEPT ![r] = append(@, message)]
               /\ IF Falsy(function_call)
                  THEN /\ Return(r, SuccessOutcome(message, llm_response, count))
                       /\ last_turn' = [last_turn EXCEPT ![r] = "final"]
                       /\ UNCHANGED <<tool_call_count, function_name, function_args,
                                      tool_invocations>>
                  ELSE LET fc == get(function_call, FunctionCall({}, {}))
                           function_args_str == get(fc.arguments, StrPayload("{}"))
                           decoded == json_loads(function_args_str)
                       IN /\ last_turn' = [last_turn EXCEPT ![r] = "call"]
                          /\ tool_call_count' = [tool_call_count EXCEPT ![r] = {count + 1}]
                          /\ function_name' = [function_name EXCEPT ![r] = fc.name]
                          /\ IF decoded.raised = {} \/ Caught(decoded)
                             THEN /\ function_args' =
                                       [function_args EXCEPT ![r] =
                                          {IF decoded.raised = {} THEN decoded.value
                                           ELSE EmptyDict}]
                                  /\ pc' = [pc EXCEPT ![r] = "tool"]
                                  /\ tool_invocations' =
                                       [tool_invocations EXCEPT ![r] = @ + 1]
                                  /\ UNCHANGED <<outcome, escaped>>
                             ELSE /\ Raise(r, get(decoded.raised, Exc("", "")), {count + 1})
                                  /\ UNCHANGED <<function_args, tool_invocations>>
    /\ UNCHANGED <<mcp_tools, request, max_tool_calls, litellm_functions, model_calls,
                   fetches, discovered, sent, mcp_tools_writer, mcp_tools_reader>>

\* the loop without lines 266-271: the tool result is never appended
tool_returns_NoAppend(r, reply) ==
    /\ pc[r] = "tool"
    /\ UNCHANGED <<mcp_tools, request, max_tool_calls, litellm_functions,
                   tool_call_count, function_name, function_args,
                   tool_invocations, last_turn, fetches, discovered,
                   mcp_tools_writer, mcp_tools_reader>>
    /\ LET tool_result == execute_mcp_tool(reply)
       IN IF tool_result.raised = {}
          THEN /\ UNCHANGED messages
               /\ LoopHead(r, get(tool_call_count[r], 0), messages[r])
          ELSE /\ Raise(r, get(tool_result.raised, Exc("", "")), tool_call_count[r])
               /\ UNCHANGED <<messages, model_calls, sent>>

\* _execute_mcp_tool returns: lines 263-273, then 221 and 224 or 276-282
tool_returns(r, reply) ==
    /\ pc[r] = "tool"
    /\ UNCHANGED <<mcp_tools, request, max_tool_calls, litellm_functions,
                   tool_call_count, function_name, function_args,
                   tool_invocations, last_turn, fetches, discovered,
                   mcp_tools_writer, mcp_tools_reader>>
    /\ LET tool_result == execute_mcp_tool(reply)
       IN IF tool_result.raised = {}
          THEN /\ messages' = [messages EXCEPT ![r] =
                                 append(@, function_message(function_name[r],
                                                            tool_result.value))]
               /\ LoopHead(r, get(tool_call_count[r], 0), messages'[r])
          ELSE /\ Raise(r, get(tool_result.raised, Exc("", "")), tool_call_count[r])
               /\ UNCHANGED <<messages, model_calls, sent>>

Step(r) ==
    \/ \E req \in Requests, limit \in Budgets : process_request(r, req, limit)
    \/ \E tools_response \in ToolsResponses : fetch_returns(r, tools_response)
    \/ \E e \in DiscoveryErrors : fetch_raises(r, e)
    \/ \E http \in HttpReplies : litellm_raises(r, http)
    \/ \E http \in HttpReplies : litellm_returns(r, http)
    \/ \E reply \in ToolReplies : tool_returns(r, reply)

\* one run of process_request on the agent
Next == Step(1)

Spec == Init /\ [][Next]_vars

(***************************************************************************)
(* Two runs of process_request on one agent, as asyncio interleaves them:  *)
(* each action is the code of one run between two awaits, and either run   *)
(* may take the next step.  The replies are a part of those of Spec: a     *)
(* final answer, a function-call request, a refused model call, a tool     *)
(* reply without content and a tool error.                                 *)
(***************************************************************************)
ConcBudgets == {MaxBudget}

ConcHttpReplies ==
    {http \in HttpReplies :
        /\ http.error = {}
        /\ \/ http.status_code # 200
           \/ /\ http.json.usage = Usage(42)
              /\ first_choice(http.json).raised = {}
              /\ first_message(http.json) \in
                    { Message({"assistant"}, {}, {"Hello"}, {}),
                      Message({"assistant"}, {}, {},
                              {FunctionCall({"weather"},
                                            {StrPayload("{\"location\": \"SF\"}")})}) }}

ConcToolReplies == {reply \in ToolReplies : reply.content = <<>>}

StepConc(r) ==
    \/ \E req \in Requests, limit \in ConcBudgets : process_request(r, req, limit)
    \/ \E tools_response \in ToolsResponses : fetch_returns(r, tools_response)
    \/ \E e \in DiscoveryErrors : fetch_raises(r, e)
    \/ \E http \in ConcHttpReplies : litellm_raises(r, http)
    \/ \E http \in ConcHttpReplies : litellm_returns(r, http)
    \/ \E reply \in ConcToolReplies : tool_returns(r, reply)

NextConc == \E r \in Runs : StepConc(r)

SpecConc == Init /\ [][NextConc]_vars

(***************************************************************************)
(* One run under the assumption that no awaited call stays pending for     *)
(* ever.  The model replies are those of Spec; the tool replies are one    *)
(* success and one failure, since the content of a reply does not change   *)
(* which statement the run executes next.                                  *)
(***************************************************************************)
StepLive(r) ==
    \/ \E req \in Requests, limit \in Budgets : process_request(r, req, limit)
    \/ \E tools_response \in ToolsResponses : fetch_returns(r, tools_response)
    \/ \E e \in DiscoveryErrors : fetch_raises(r, e)
    \/ \E http \in HttpReplies : litellm_raises(r, http)
    \/ \E http \in HttpReplies : litellm_returns(r, http)
    \/ \E reply \in ConcToolReplies : tool_returns(r, reply)

NextLive == StepLive(1)

\* an external call that was issued comes back: the awaited discovery, model
\* call or tool invocation returns or raises
Completes(r) == pc[r] \in {"fetch", "litellm", "tool"} /\ StepLive(r)

LiveSpec == Init /\ [][NextLive]_vars /\ WF_vars(Completes(1))

(***************************************************************************)
(* _convert_mcp_tools_to_litellm on its own: the agent holds any list of   *)
(* at most MaxTools tools, made by _fetch_mcp_tools from provider tools    *)
(* whose schema is absent, empty or filled, and converts it.               *)
(***************************************************************************)
ProviderTools ==
    { ProviderTool(n, "About " \o n, sch) :
        n \in {"weather", "time"},
        sch \in {{}, {{}}, {WeatherSchema}, {DefaultSchema}} }

ProviderToolLists == UNION { [1..n -> ProviderTools] : n \in 0..MaxTools }

ConvertInit ==
    /\ \E tools_response \in ProviderToolLists :
          /\ discovered = [r \in Runs |-> IF r = 1 THEN {tools_response} ELSE {}]
          /\ mcp_tools = fetch_mcp_tools(tools_response)
    /\ pc = [r \in Runs |-> IF r = 1 THEN "convert" ELSE "idle"]
    /\ request = [r \in Runs |-> ""]
    /\ max_tool_calls = [r \in Runs |-> 0]
    /\ litellm_functions = [r \in Runs |-> <<>>]
    /\ messages = [r \in Runs |-> <<>>]
    /\ tool_call_count = [r \in Runs |-> {}]
    /\ function_name = [r \in Runs |-> {}]
    /\ function_args = [r \in Runs |-> {}]
    /\ outcome = [r \in Runs |-> {}]
    /\ escaped = [r \in Runs |-> {}]
    /\ model_calls = [r \in Runs |-> 0]
    /\ tool_invocations = [r \in Runs |-> 0]
    /\ last_turn = [r \in Runs |-> "none"]
    /\ fetches = [r \in Runs |-> 0]
    /\ sent = [r \in Runs |-> <<>>]
    /\ mcp_tools_writer = 0
    /\ mcp_tools_reader = [r \in Runs |-> {}]

\* line 211: litellm_functions = self._convert_mcp_tools_to_litellm(self.mcp_tools)
Convert(r) ==
    /\ pc[r] = "convert"
    /\ litellm_functions' =
          [litellm_functions EXCEPT ![r] = convert_mcp_tools_to_litellm(mcp_tools)]
    /\ pc' = [pc EXCEPT ![r] = "converted"]
    /\ UNCHANGED <<mcp_tools, request, max_tool_calls, messages, tool_call_count,
                   function_name, function_args, outcome, escaped, model_calls,
                   tool_invocations, last_turn, fetches, discovered, sent,
                   mcp_tools_writer, mcp_tools_reader>>

NextConvert == Convert(1)

SpecConvert == ConvertInit /\ [][NextConvert]_vars



(***************************************************************************)
(* Terminal states of a run, read from the dict it returned.               *)
(***************************************************************************)
NoOutcome ==
    [success |-> FALSE, response |-> {}, error |-> {}, tool_calls_made |-> 0,
     total_tokens |-> {}, partial_response |-> {}]

Result(r) == get(outcome[r], NoOutcome)

Done(r) == pc[r] \in {"returned", "raised"}

DoneSuccess(r) == pc[r] = "returned" /\ Result(r).success

DoneExhausted(r) ==
    pc[r] = "returned" /\ ~Result(r).success /\ Result(r).partial_response # {}

DoneFailed(r) ==
    pc[r] = "returned" /\ ~Result(r).success /\ Result(r).partial_response = {}

IsCallMessage(m) == ~Falsy(m.function_call)

IsResultMessage(m) == m.role = {"function"}

CallName(m) == get(m.function_call, FunctionCall({}, {})).name

CallIndices(msgs) == {i \in DOMAIN msgs : IsCallMessage(msgs[i])}

ResultIndices(msgs) == {i \in DOMAIN msgs : IsResultMessage(msgs[i])}

\* once a run has ended it issues no model call and no tool invocation
Quiet(r) ==
    Done(r) => /\ model_calls'[r] = model_calls[r]
               /\ tool_invocations'[r] = tool_invocations[r]
               /\ pc'[r] = pc[r]
               /\ outcome'[r] = outcome[r]

(***************************************************************************)
(* Claims.                                                                 *)
(***************************************************************************)

\* C1: in every reachable state of a run tool_call_count is between 0 and
\* max_tool_calls inclusive (and so is the tool_calls_made it returns), and
\* no step of the run decreases or unsets it.
C1_CallsMadeBounded ==
    /\ [](\A r \in Runs :
            /\ \A n \in tool_call_count[r] : 0 <= n /\ n <= max_tool_calls[r]
            /\ \A o \in outcome[r] :
                 0 <= o.tool_calls_made /\ o.tool_calls_made <= max_tool_calls[r])
    /\ [][\A r \in Runs : \A n \in tool_call_count[r] :
            /\ tool_call_count'[r] # {}
            /\ \A m \in tool_call_count'[r] : n <= m]_vars

\* a run whose counter has reached a budget of MaxBudget calls
C1_Witness ==
    \E r \in Runs :
        /\ max_tool_calls[r] = MaxBudget
        /\ tool_call_count[r] = {MaxBudget}
        /\ pc[r] = "tool"

\* C2 as stated: a run ends exhausted if and only if calls_made equals
\* max_tool_calls and the latest model turn is a function-call request.
C2_Original ==
    \A r \in Runs :
        Done(r) =>
            (DoneExhausted(r) <=>
                /\ get(tool_call_count[r], 0) = max_tool_calls[r]
                /\ last_turn[r] = "call")

\* C2 as amended: a run ends exhausted if and only if discovery succeeded,
\* calls_made equals max_tool_calls and every counted call has its
\* function-result message in the conversation; the latest model turn is then
\* a function-call request, or there was no model turn at all and
\* max_tool_calls is 0.  No run is exhausted below the budget or after a
\* final answer.
C2_Exhausted ==
    \A r \in Runs :
        Done(r) =>
            /\ DoneExhausted(r) <=>
                /\ tool_call_count[r] = {max_tool_calls[r]}
                /\ Cardinality(ResultIndices(messages[r]))
                      = max_tool_calls[r]
            /\ DoneExhausted(r) =>
                /\ Result(r).tool_calls_made = max_tool_calls[r]
                /\ \/ last_turn[r] = "call"
                   \/ last_turn[r] = "none" /\ max_tool_calls[r] = 0

\* a run exhausted after MaxBudget answered function calls
C2_Witness ==
    \E r \in Runs :
        /\ DoneExhausted(r)
        /\ max_tool_calls[r] = MaxBudget
        /\ last_turn[r] = "call"
        /\ Len(messages[r]) = 1 + 2 * MaxBudget

\* C3: whenever _call_litellm is being called, every function-call request
\* in the conversation is followed at once by exactly one function-result
\* message carrying the requested tool's name.
C3_NoDanglingCall ==
    \A r \in Runs :
        pc[r] = "litellm" =>
            LET msgs == messages[r]
            IN /\ \A i \in CallIndices(msgs) :
                    /\ i + 1 <= Len(msgs)
                    /\ IsResultMessage(msgs[i + 1])
                    /\ msgs[i + 1].name = CallName(msgs[i])
                    /\ i + 2 <= Len(msgs) => ~IsResultMessage(msgs[i + 2])
               /\ \A i \in ResultIndices(msgs) :
                    i > 1 /\ IsCallMessage(msgs[i - 1])

\* the model is called again after a function call was answered
C3_Witness ==
    \E r \in Runs :
        /\ pc[r] = "litellm"
        /\ CallIndices(messages[r]) # {}

\* C4: no exception leaves process_request, and what it returns is a dict
\* with a boolean success and a tool_calls_made count, whether the failure
\* was in discovery, in a model call, in argument decoding or in a tool call.
C4_StructuredOutcome ==
    \A r \in Runs :
        /\ pc[r] # "raised"
        /\ escaped[r] = {}
        /\ pc[r] = "returned" =>
              /\ outcome[r] # {}
              /\ Result(r).success \in BOOLEAN
              /\ Result(r).tool_calls_made \in 0..max_tool_calls[r]
              /\ ~Result(r).success => Result(r).error # {}
        /\ outcome[r] # {} => pc[r] = "returned"

\* a model call fails after a tool invocation that failed too
C4_Witness ==
    \E r \in Runs :
        /\ DoneFailed(r)
        /\ Result(r).error = {"LiteLLM request failed: 500"}
        /\ Len(messages[r]) = 3
        /\ messages[r][3].content = {"{\"error\": \"Tool execution failed: Unknown tool\"}"}

\* the replies of the tool provider that make the invocation fail
FailingToolReplies == {reply \in ToolReplies : call_tool_body(reply).raised # {}}

\* C5: a failing tool invocation does not end the run in Done(failed): the
\* error is appended as the function-result message of the requested tool,
\* and the run goes on to the next model call or stops on the budget.
C5_ToolFailureContinues ==
    [][\A r \in Runs : \A reply \in FailingToolReplies :
          tool_returns(r, reply) =>
             /\ Len(messages'[r]) = Len(messages[r]) + 1
             /\ LET m == messages'[r][Len(messages'[r])]
                    e == get(call_tool_body(reply).raised, Exc("", ""))
                IN /\ m.role = {"function"}
                   /\ m.name = function_name[r]
                   /\ m.content =
                        {"{\"error\": \"Tool execution failed: " \o e.text \o "\"}"}
             /\ \/ pc'[r] = "litellm" /\ model_calls'[r] = model_calls[r] + 1
                \/ DoneExhausted(r)'
             /\ ~DoneFailed(r)']_vars

\* after a tool invocation that failed the model is called again
C5_Witness ==
    \E r \in Runs :
        /\ pc[r] = "litellm"
        /\ Len(messages[r]) = 3
        /\ messages[r][3].name = {"weather"}
        /\ messages[r][3].content =
             {"{\"error\": \"Tool execution failed: object has no attribute 'text'\"}"}


\* the replies of the model backend, by the turn they carry
OkReplies == {http \in HttpReplies : http.error = {} /\ http.status_code = 200}

FailingHttpReplies == HttpReplies \ OkReplies

CallReplies == {http \in OkReplies : first_message(http.json) \in CallMessages}

FinalReplies ==
    {http \in OkReplies \ CallReplies : first_choice(http.json).raised = {}}

Arguments(http) ==
    get(first_message(http.json).function_call, FunctionCall({}, {})).arguments

\* the payload is text that decodes to a JSON object
ParsesAsMapping(payload) ==
    /\ payload.json_type = "string"
    /\ json_loads(payload).raised = {}
    /\ json_loads(payload).value.pytype = "dict"

\* C6 as stated: for every function-call request whose arguments payload
\* cannot be parsed as a mapping the loop substitutes an empty mapping and
\* still invokes the named tool; the run does not end in Done(failed).
C6_Original ==
    [][\A r \in Runs : \A http \in CallReplies :
          (/\ litellm_returns(r, http)
           /\ \E payload \in Arguments(http) : ~ParsesAsMapping(payload))
          => /\ pc'[r] = "tool"
             /\ function_args'[r] = {EmptyDict}
             /\ function_name'[r] = {"weather"}
             /\ tool_invocations'[r] = tool_invocations[r] + 1
             /\ ~DoneFailed(r)']_vars

\* C7: when discovery fails the run returns at once success false, the text
\* of the discovery error and tool_calls_made 0, having called neither the
\* model nor a tool, and it calls neither afterwards.
C7_DiscoveryFailure ==
    /\ [][\A r \in Runs : \A e \in DiscoveryErrors :
            fetch_raises(r, e) =>
               /\ DoneFailed(r)'
               /\ Result(r)'.error = {e.text}
               /\ Result(r)'.tool_calls_made = 0
               /\ model_calls'[r] = 0
               /\ tool_invocations'[r] = 0
               /\ messages'[r] = <<>>]_vars
    /\ [][\A r \in Runs : Quiet(r)]_vars

\* a run that ended on a discovery failure
C7_Witness ==
    \E r \in Runs :
        /\ DoneFailed(r)
        /\ Result(r).error = {"All connection attempts failed"}
        /\ tool_call_count[r] = {}
        /\ max_tool_calls[r] = MaxBudget

\* C8: when a model call fails (transport failure or status other than 200)
\* the run returns success false with the error's description and with
\* tool_calls_made equal to the number of tool invocations issued before
\* that call; no tool invocation and no model call follows.
C8_ModelFailure ==
    /\ [][\A r \in Runs : \A http \in FailingHttpReplies :
            (litellm_raises(r, http) \/ litellm_returns(r, http)) =>
               /\ DoneFailed(r)'
               /\ Result(r)'.error =
                    IF http.error # {} THEN {e.text : e \in http.error}
                    ELSE {"LiteLLM request failed: " \o str_int(http.status_code)}
               /\ Result(r)'.tool_calls_made = tool_invocations[r]
               /\ tool_invocations'[r] = tool_invocations[r]
               /\ model_calls'[r] = model_calls[r]
               /\ messages'[r] = messages[r]]_vars
    /\ [][\A r \in Runs : Quiet(r)]_vars

\* a model call fails on a status 500 after one tool invocation
C8_Witness ==
    \E r \in Runs :
        /\ DoneFailed(r)
        /\ Result(r).error = {"LiteLLM request failed: 500"}
        /\ Result(r).tool_calls_made = 1
        /\ tool_invocations[r] = 1
        /\ model_calls[r] = 2

\* C9: a model turn that is a final answer ends the run at once with success
\* true, the turn's text as response ("" when it has none), tool_calls_made
\* equal to the number of tool invocations issued before the turn, and the
\* turn's total_tokens (0 when it reports none); nothing is invoked after it.
C9_FinalAnswer ==
    /\ [][\A r \in Runs : \A http \in FinalReplies :
            litellm_returns(r, http) =>
               LET m == first_message(http.json)
               IN /\ DoneSuccess(r)'
                  /\ Result(r)'.response = IF m.content = {} THEN {""} ELSE m.content
                  /\ Result(r)'.tool_calls_made = tool_invocations[r]
                  /\ Result(r)'.total_tokens =
                       IF \E u \in http.json.usage : u.total_tokens # {}
                       THEN UNION {u.total_tokens : u \in http.json.usage}
                       ELSE {0}
                  /\ tool_call_count'[r] = tool_call_count[r]
                  /\ tool_invocations'[r] = tool_invocations[r]
                  /\ model_calls'[r] = model_calls[r]
                  /\ messages'[r] = Append(messages[r], m)]_vars
    /\ [][\A r \in Runs : Quiet(r)]_vars

\* a final answer after one tool invocation
C9_Witness ==
    \E r \in Runs :
        /\ DoneSuccess(r)
        /\ Result(r).response = {"Hello"}
        /\ Result(r).tool_calls_made = 1
        /\ Result(r).total_tokens = {42}
        /\ Len(messages[r]) = 4

\* every model call of the run was answered with a function-call request
EveryTurnIsCall(r) ==
    /\ tool_call_count[r] # {}
    /\ model_calls[r] = Cardinality({i \in DOMAIN messages[r] :
                                        messages[r][i] \in CallMessages})

\* C10 as stated: with max_tool_calls = N >= 1 and a model that answers every
\* turn with a function-call request, the run makes N model calls and N tool
\* invocations and returns success false, "Maximum tool calls (N) reached",
\* tool_calls_made N and the content of the last message as partial result.
C10_Original ==
    \A r \in Runs :
        (Done(r) /\ max_tool_calls[r] >= 1 /\ EveryTurnIsCall(r)) =>
            LET N == max_tool_calls[r]
            IN /\ model_calls[r] = N
               /\ tool_invocations[r] = N
               /\ DoneExhausted(r)
               /\ Result(r).error = {"Maximum tool calls (" \o str_int(N) \o ") reached"}
               /\ Result(r).tool_calls_made = N
               /\ Result(r).partial_response = messages[r][Len(messages[r])].content



\* C11: if every awaited external call eventually returns or raises, a run
\* that was started eventually ends, in exactly one of success, exhausted
\* and failed, having gone round the loop at most max_tool_calls times, and
\* an ended run does nothing more.
C11_Terminates ==
    /\ \A r \in Runs : pc[r] = "fetch" ~> Done(r)
    /\ [](\A r \in Runs :
            /\ model_calls[r] <= max_tool_calls[r]
            /\ Done(r) => Cardinality({k \in {"success", "exhausted", "failed"} :
                                         \/ k = "success" /\ DoneSuccess(r)
                                         \/ k = "exhausted" /\ DoneExhausted(r)
                                         \/ k = "failed" /\ DoneFailed(r)}) = 1)
    /\ [][\A r \in Runs : Done(r) => UNCHANGED <<pc[r], outcome[r], messages[r],
                                                  model_calls[r], sent[r]>>]_vars

C11_Witness ==
    \E r \in Runs :
        /\ DoneSuccess(r)
        /\ max_tool_calls[r] = MaxBudget
        /\ model_calls[r] = MaxBudget


\* C12: a run issues discovery at most once, no model call is made before
\* discovery has answered, and every model call of the run is handed the
\* function specs converted from that one answer, whatever tool calls were
\* made in between.
C12_OneDiscovery ==
    \A r \in Runs :
        /\ fetches[r] <= 1
        /\ Cardinality(discovered[r]) <= 1
        /\ sent[r] # <<>> => fetches[r] = 1 /\ discovered[r] # {}
        /\ \A tools_response \in discovered[r] : \A i \in 1..Len(sent[r]) :
              sent[r][i].functions =
                 functions_argument(
                    convert_mcp_tools_to_litellm(fetch_mcp_tools(tools_response)))

C12_Witness ==
    \E r \in Runs :
        /\ Len(sent[r]) = MaxBudget
        /\ MaxBudget >= 2
        /\ tool_invocations[r] = MaxBudget - 1
        /\ \E fns \in sent[r][MaxBudget].functions : Len(fns) = 2


\* the number of backslashes in a row that end at position i of a text
Backslashes(text, i) ==
    IF i < 1 \/ Char(text, i) # "\\" THEN 0
    ELSE LET others == {j \in 1..i : Char(text, j) # "\\"}
         IN i - (IF others = {} THEN 0
                 ELSE CHOOSE j \in others : \A k \in others : k <= j)

\* the character at position i comes after a backslash that escapes it
IsEscaped(text, i) == Backslashes(text, i - 1) % 2 = 1

\* Reading a JSON string literal: `text` starts just after the opening quote;
\* the result holds the decoded characters up to the closing quote and what
\* follows it, or ok = FALSE if the literal is not closed or has an escape
\* other than \" and \\.
scan_string(text) ==
    LET closing == {i \in 1..Len(text) :
                       Char(text, i) = "\"" /\ ~IsEscaped(text, i)}
    IN IF closing = {} THEN [ok |-> FALSE, chars |-> "", rest |-> ""]
       ELSE LET close == CHOOSE i \in closing : \A k \in closing : i <= k
                Escaping(i) == Char(text, i) = "\\" /\ ~IsEscaped(text, i)
            IN [ok |-> \A i \in 1..(close - 1) :
                         Escaping(i) => Char(text, i + 1) \in {"\"", "\\"},
                chars |-> join([i \in 1..(close - 1) |->
                                  IF Escaping(i) THEN "" ELSE Char(text, i)],
                               1, close - 1),
                rest |-> SubSeq(text, close + 1, Len(text))]

StartsWith(text, prefix) ==
    Len(text) >= Len(prefix) /\ SubSeq(text, 1, Len(prefix)) = prefix

After(text, prefix) == SubSeq(text, Len(prefix) + 1, Len(text))

\* The mappings a text decodes to as a JSON object of one string-valued
\* key, {"key": "value"}: one mapping, or none if the text is not such JSON.
DecodedMappings(text) ==
    IF ~StartsWith(text, "{\"") THEN {}
    ELSE LET key == scan_string(After(text, "{\""))
         IN IF ~key.ok \/ ~StartsWith(key.rest, ": \"") THEN {}
            ELSE LET value == scan_string(After(key.rest, ": \""))
                 IN IF value.ok /\ value.rest = "}"
                    THEN {{<<key.chars, value.chars>>}}
                    ELSE {}

\* the results _execute_mcp_tool can return
ToolResults == {execute_mcp_tool(reply).value : reply \in ToolReplies}

\* C17: every function-result message holds one content; when such a
\* message is appended its content is text that decodes to a mapping with
\* exactly one key, result or error; that mapping is a result of
\* _execute_mcp_tool and the text is its serialized form.
C17_ResultIsSerialized ==
    /\ [](\A r \in Runs : \A i \in ResultIndices(messages[r]) :
            Cardinality(messages[r][i].content) = 1)
    /\ [][\A r \in Runs : \A i \in ResultIndices(messages'[r]) :
            i > Len(messages[r]) =>
               \A text \in messages'[r][i].content :
                  LET decoded == DecodedMappings(text)
                  IN /\ Cardinality(decoded) = 1
                     /\ \A d \in decoded :
                           /\ Cardinality(d) = 1
                           /\ \A kv \in d : kv[1] \in {"result", "error"}
                           /\ d \in ToolResults
                           /\ json_dumps(d) = text]_vars

C17_Witness ==
    \E r \in Runs :
        /\ Len(messages[r]) = 3
        /\ messages[r][3].content = {"{\"result\": \"{\\\"temp\\\": 65}\"}"}
        /\ DecodedMappings("{\"result\": \"{\\\"temp\\\": 65}\"}")
              = {{<<"result", "{\"temp\": 65}">>}}


IsPrefix(short, long) ==
    Len(short) <= Len(long) /\ SubSeq(long, 1, Len(short)) = short

\* the user message followed by n pairs (function-call request, function result)
UserThenPairs(r, msgs, n) ==
    /\ Len(msgs) = 1 + 2 * n
    /\ msgs[1] = Message({"user"}, {}, {request[r]}, {})
    /\ \A k \in 1..n : /\ IsCallMessage(msgs[2 * k])
                        /\ ~IsResultMessage(msgs[2 * k])
                        /\ IsResultMessage(msgs[2 * k + 1])

\* C18: the conversation only grows at its end; it starts with the user
\* message holding the request; the function-call turn is in it while the
\* tool is being invoked; and the conversation handed to each model call is
\* the user message followed by calls_made pairs of a function-call request
\* and its function result.
C18_AppendOnly ==
    /\ [][\A r \in Runs : IsPrefix(messages[r], messages'[r])]_vars
    /\ [](\A r \in Runs :
            /\ messages[r] # <<>> =>
                  messages[r][1] = Message({"user"}, {}, {request[r]}, {})
            /\ pc[r] = "tool" => IsCallMessage(messages[r][Len(messages[r])])
            /\ pc[r] = "litellm" =>
                  /\ Len(sent[r]) = get(tool_call_count[r], 0) + 1
                  /\ sent[r][Len(sent[r])].messages = messages[r]
            /\ \A i \in 1..Len(sent[r]) :
                  /\ UserThenPairs(r, sent[r][i].messages, i - 1)
                  /\ IsPrefix(sent[r][i].messages, messages[r]))

C18_Witness ==
    \E r \in Runs :
        /\ pc[r] = "litellm"
        /\ tool_call_count[r] = {MaxBudget - 1}
        /\ MaxBudget >= 2
        /\ UserThenPairs(r, messages[r], MaxBudget - 1)


\* the catalog of a run: the tools its discovery returned
Catalogs(r) == {fetch_mcp_tools(tools_response) : tools_response \in discovered[r]}

\* C19: every body posted to the model backend holds the functions list and
\* function_call "auto" if the catalog of the run has at least one tool, and
\* neither field if the catalog is empty.
C19_FunctionsIffCatalog ==
    \A r \in Runs : \A i \in 1..Len(sent[r]) :
        /\ Catalogs(r) # {}
        /\ \A catalog \in Catalogs(r) :
              IF catalog # <<>>
              THEN /\ sent[r][i].functions = {convert_mcp_tools_to_litellm(catalog)}
                   /\ Len(convert_mcp_tools_to_litellm(catalog)) >= 1
                   /\ sent[r][i].function_call = {"auto"}
              ELSE /\ sent[r][i].functions = {}
                   /\ sent[r][i].function_call = {}

C19_Witness ==
    \E r \in Runs :
        /\ Catalogs(r) = {<<>>}
        /\ Len(sent[r]) = MaxBudget
        /\ tool_invocations[r] = MaxBudget - 1
        /\ sent[r][MaxBudget].function_call = {}


\* C20: a run makes at most max_tool_calls model calls; a run that ends in
\* success has tool_calls_made below max_tool_calls; and once the result of
\* the max_tool_calls-th tool invocation is in the conversation the run has
\* ended exhausted and no body posted to the model holds that result.
C20_LastResultUnsent ==
    \A r \in Runs :
        /\ Len(sent[r]) = model_calls[r]
        /\ model_calls[r] <= max_tool_calls[r]
        /\ DoneSuccess(r) => Result(r).tool_calls_made < max_tool_calls[r]
        /\ (/\ max_tool_calls[r] >= 1
            /\ tool_invocations[r] = max_tool_calls[r]
            /\ Len(messages[r]) = 1 + 2 * max_tool_calls[r])
           => /\ DoneExhausted(r)
              /\ IsResultMessage(messages[r][Len(messages[r])])
              /\ \A i \in 1..Len(sent[r]) :
                    Len(sent[r][i].messages) < Len(messages[r])

C20_Witness ==
    \E r \in Runs :
        /\ max_tool_calls[r] = MaxBudget
        /\ tool_invocations[r] = MaxBudget
        /\ IsResultMessage(messages[r][Len(messages[r])])
        /\ Len(sent[r]) = MaxBudget
        /\ Len(sent[r][MaxBudget].messages) = 2 * MaxBudget - 1


\* the status-200 replies whose body has no "choices" key
NoChoicesReplies == {http \in OkReplies : http.json.choices = {}}

\* C15: a successful backend reply without a choices list is taken as an
\* empty turn: the run ends in success, not in failure, with the empty text
\* as response and tool_calls_made as it was before the reply.
C15_NoChoicesIsEmptyTurn ==
    [][\A r \in Runs : \A http \in NoChoicesReplies :
          litellm_returns(r, http) =>
             /\ DoneSuccess(r)'
             /\ ~DoneFailed(r)'
             /\ Result(r)'.response = {""}
             /\ Result(r)'.tool_calls_made = get(tool_call_count[r], 0)
             /\ tool_call_count'[r] = tool_call_count[r]
             /\ tool_invocations'[r] = tool_invocations[r]
             /\ messages'[r] = Append(messages[r], EmptyMessage)]_vars

\* the reply without choices that reports 42 tokens, after one tool call
C15_Witness ==
    \E r \in Runs :
        /\ DoneSuccess(r)
        /\ Len(messages[r]) = 4
        /\ messages[r][4] = EmptyMessage
        /\ Result(r).response = {""}
        /\ Result(r).tool_calls_made = 1
        /\ Result(r).total_tokens = {42}


\* the replies of call_tool that are not failures
SuccessfulToolReplies == {reply \in ToolReplies : reply.error = {}}

\* what C16 says the first content item of a reply yields
FirstItemText(reply) ==
    IF reply.content = <<>>
    THEN "Tool executed successfully but returned no content"
    ELSE LET first == reply.content[1]
         IN IF first.text \in {{}, {""}} THEN first.repr ELSE get(first.text, "")

\* C16 as stated: for every successful provider reply _execute_mcp_tool
\* returns {"result": t}, t being the text of the first content item, the
\* item's string representation if it has no text or an empty one, and the
\* sentinel if there is no item; never an error result, whatever the later
\* items are.
C16_Original ==
    [][\A r \in Runs : \A reply \in SuccessfulToolReplies :
          tool_returns(r, reply) =>
             /\ execute_mcp_tool(reply) =
                   [raised |-> {}, value |-> {<<"result", FirstItemText(reply)>>}]
             /\ messages'[r][Len(messages'[r])].content =
                   {json_dumps({<<"result", FirstItemText(reply)>>})}]_vars


Running(r) == pc[r] \in {"fetch", "litellm", "tool"}

\* the variables of the model that belong to one run
Locals(r) ==
    <<pc[r], request[r], max_tool_calls[r], litellm_functions[r], messages[r],
      tool_call_count[r], function_name[r], function_args[r], outcome[r],
      escaped[r], model_calls[r], tool_invocations[r], last_turn[r],
      fetches[r], discovered[r], sent[r], mcp_tools_reader[r]>>

\* C13 as stated: two runs interleaved on one agent share no mutable state:
\* a step of one run changes nothing that belongs to the other, no run reads
\* a value of self.mcp_tools that the other run wrote, and the value a
\* running run wrote to self.mcp_tools is not overwritten by the other.
C13_Original ==
    /\ [][\A r \in Runs : \A o \in Runs \ {r} :
            StepConc(r) => UNCHANGED Locals(o)]_vars
    /\ [](\A r \in Runs : mcp_tools_reader[r] \subseteq {r})
    /\ [][\A r \in Runs :
            (Running(r) /\ mcp_tools_writer = r) => mcp_tools_writer' = r]_vars


\* C21 as stated: in every terminal outcome tool_calls_made is the number
\* of tool invocations the run issued and the number of function-result
\* messages in its conversation.
C21_Original ==
    \A r \in Runs :
        pc[r] = "returned" =>
            /\ Result(r).tool_calls_made = tool_invocations[r]
            /\ Result(r).tool_calls_made = Cardinality(ResultIndices(messages[r]))


\* the function specs derived from the discovery result of run r
OwnFunctions(r) ==
    {convert_mcp_tools_to_litellm(fetch_mcp_tools(tools_response)) :
        tools_response \in discovered[r]}

\* C22: with two runs interleaved on one agent, the function specs a run
\* holds and posts with each model call are those derived from its own
\* discovery result, also when self.mcp_tools holds the other run's catalog.
C22_OwnCatalog ==
    \A r \in Runs :
        /\ sent[r] # <<>> => OwnFunctions(r) = {litellm_functions[r]}
        /\ \A i \in 1..Len(sent[r]) : \A fns \in OwnFunctions(r) :
              sent[r][i].functions = functions_argument(fns)

\* both runs are at their second model call, run 1 with the weather tool and
\* run 2 with the time and echo tools, and self.mcp_tools holds run 2's
C22_Witness ==
    /\ pc[1] = "litellm" /\ pc[2] = "litellm"
    /\ Len(sent[1]) = 2 /\ Len(sent[2]) = 2
    /\ mcp_tools_writer = 2
    /\ Len(mcp_tools) = 2
    /\ \E fns \in sent[1][2].functions : Len(fns) = 1 /\ fns[1].name = "weather"
    /\ \E fns \in sent[2][2].functions : Len(fns) = 2 /\ fns[1].name = "time"

====
